---------------------------- MODULE Spec2Model ----------------------------
(***************************************************************************)
(* Model of next-route-guard: the route trie (buildRouteTrie,              *)
(* addRouteToTrie), the matcher (matchPath, findMatch) and the middleware  *)
(* returned by createRouteGuardMiddleware.                                 *)
(*                                                                         *)
(* Strings are sequences of tokens: "/", "?", "#", the regular-expression  *)
(* atoms, and one token per segment name.  No segment name is a prefix of  *)
(* another and two names are never adjacent in a string, so splitting on   *)
(* "/" and matching token by token agree with the character-level          *)
(* operations of the source.                                               *)
(***************************************************************************)
EXTENDS Naturals, Sequences, FiniteSets, TLC

VARIABLES
    options,            \* the optional fields of the options given to
                        \* createRouteGuardMiddleware, <<>> where omitted
    routeMap,           \* options.routeMap: [protected, public], lists of route strings
    defaultProtected,   \* options.defaultProtected
    excludeUrls,        \* options.excludeUrls: list of strings and RegExp objects
    routeTrie,          \* the trie the middleware closes over
    lastIndex,          \* lastIndex of every RegExp object of excludeUrls
    pc,                 \* where the request in hand is: "idle", "awaitAuth", "returned"
    pathname,           \* request.nextUrl.pathname of the request in hand
    excluded,           \* whether the exclusion loop returned for it
    matched,            \* what matchPath returned for it (<<>>: not called)
    isAuthed,           \* what isAuthenticated resolved to for it (<<>>: not yet)
    response,           \* what the middleware returned for it
    callLog,            \* the collaborators called for it, in call order
    appDir,             \* the app directory generateRouteMap scans: the set of
                        \* its page files, each the list of directory names
                        \* from the app root down to the page
    functions,          \* the list given to chain
    middleware,         \* the middleware chain(functions) returned
    running,            \* the middleware the request in hand is passed to next
    ran,                \* the entries of functions whose middleware ran for it
    suspended,          \* the requests that wait for isAuthenticated while the
                        \* middleware handles another one: their local variables
    secondTrie,         \* the trie of a second buildRouteTrie(routeMap) (<<>>: none)
    location,           \* the redirect the client received last (<<>>: none)
    hops,               \* the redirects the client has followed in a row
    timeout,            \* the watcher's pending timer: <<due time>>, or <<>>
    now,                \* the watcher's clock, in ticks of TickMs milliseconds
    lastEvent,          \* when debouncedUpdate was last called (<<>>: never)
    regenerations,      \* the times generateAndSaveRouteMap ran, the first
                        \* run at start-up not counted
    bursts              \* the bursts of events so far: an event starts a
                        \* burst when none came in the DebounceMs before it

vars == <<options, routeMap, defaultProtected, excludeUrls, routeTrie, lastIndex,
          pc, pathname, excluded, matched, isAuthed, response, callLog, appDir,
          functions, middleware, running, ran, suspended, secondTrie, location,
          hops, timeout, now, lastEvent, regenerations, bursts>>

\* the variables of chain
chainVars == <<functions, middleware, running, ran>>

\* the variables of the callers of the middleware
callerVars == <<suspended, secondTrie, location, hops>>

\* the variables of the route watcher
watchVars == <<timeout, now, lastEvent, regenerations, bursts>>

-----------------------------------------------------------------------------
(* Bounds of the model *)

MaxRoutes == 2

MaxPathLen == 3

MaxDirs == 3

MaxChain == 3

\* the ticks the watcher's clock runs for
MaxTime == 8

\* the redirects a client follows in a row before it gives up
MaxHops == 3

\* the requests that may wait for isAuthenticated at the same time, the one
\* in hand not counted
MaxSuspended == 1

-----------------------------------------------------------------------------
(* Strings *)

Slash == "/"

\* '/' + segs.join('/'): the string of a list of segments
RECURSIVE JoinSegments(_)
JoinSegments(segs) ==
    IF segs = <<>> THEN <<>>
    ELSE <<Slash, Head(segs)>> \o JoinSegments(Tail(segs))

StringOf(segs) == IF segs = <<>> THEN <<Slash>> ELSE JoinSegments(segs)

\* str.split(sep)[0] || ''
RECURSIVE SplitFirst(_, _)
SplitFirst(str, sep) ==
    IF str = <<>> \/ Head(str) = sep THEN <<>>
    ELSE <<Head(str)>> \o SplitFirst(Tail(str), sep)

\* str.split('/').filter(nonempty)
SplitSegments(str) == SelectSeq(str, LAMBDA t : t # Slash)

\* the segment forms addRouteToTrie tells apart
CatchAllSegments == {"[...slug]"}

OptionalCatchAllSegments == {"[[...slug]]"}

DynamicSegments == {"[id]"}

\* segments with an unclosed bracket
UnclosedCatchAllSegments == {"[...slug"}

UnclosedDynamicSegments == {"[id"}

\* segment.startsWith('[[...')
StartsWithOptionalCatchAll(segment) == segment \in OptionalCatchAllSegments

\* segment.startsWith('[...') || segment.startsWith('[[...')
StartsWithCatchAll(segment) ==
    \/ segment \in CatchAllSegments \cup UnclosedCatchAllSegments
    \/ StartsWithOptionalCatchAll(segment)

\* segment.startsWith('[') && segment.endsWith(']')
IsBracketed(segment) ==
    segment \in DynamicSegments \cup CatchAllSegments \cup OptionalCatchAllSegments

-----------------------------------------------------------------------------
(* RouteNode: the trie is a function from node positions to nodes.  A      *)
(* position is the list of edges from the root: a key of `children`,       *)
(* DynamicChild or CatchAllChild.  isProtected is <<>> (unset) or <<b>>;   *)
(* isOptional is the flag of the catchAllChild record that holds the node. *)

DynamicChild == "$dynamicChild"

CatchAllChild == "$catchAllChild"

Unset == <<>>

NewNode(isOptional) == [isProtected |-> Unset, isOptional |-> isOptional]

EmptyTrie == (<<>> :> NewNode(FALSE))

HasNode(trie, pos) == pos \in DOMAIN trie

\* node.children.has(segment)
HasChild(trie, pos, segment) ==
    /\ segment \notin {DynamicChild, CatchAllChild}
    /\ HasNode(trie, Append(pos, segment))

\* node.children.size > 0
HasChildren(trie, pos) ==
    \E p \in DOMAIN trie :
        /\ Len(p) = Len(pos) + 1
        /\ SubSeq(p, 1, Len(pos)) = pos
        /\ p[Len(p)] \notin {DynamicChild, CatchAllChild}

-----------------------------------------------------------------------------
(* Trie builder *)

\* the edge addRouteToTrie follows for a segment of a route
EdgeOf(segment) ==
    IF StartsWithCatchAll(segment) THEN CatchAllChild
    ELSE IF IsBracketed(segment) THEN DynamicChild
    ELSE segment

\* mutant: every node on the way of a route is marked, not the last only
AddSegment_MarksEveryNode(trie, current, segment, isLast, isProtected) ==
    LET child   == Append(current, EdgeOf(segment))
        created == IF HasNode(trie, child) THEN trie
                   ELSE (child :> NewNode(StartsWithOptionalCatchAll(segment))) @@ trie
    IN  [created EXCEPT ![child].isProtected = <<isProtected>>]

\* one iteration of the loop of addRouteToTrie: create the child if it does
\* not exist, mark it if the segment is the last one
AddSegment(trie, current, segment, isLast, isProtected) ==
    LET child   == Append(current, EdgeOf(segment))
        created == IF HasNode(trie, child) THEN trie
                   ELSE (child :> NewNode(StartsWithOptionalCatchAll(segment))) @@ trie
    IN  IF isLast
        THEN [created EXCEPT ![child].isProtected = <<isProtected>>]
        ELSE created

\* mutant: only the first catch-all segment of a route is a catch-all child;
\* a later one is added as a literal child under its own text
RECURSIVE AddSegments_FirstCatchAllOnly(_, _, _, _, _)
AddSegments_FirstCatchAllOnly(trie, current, segments, i, isProtected) ==
    IF i > Len(segments) THEN trie
    ELSE LET later   == \E j \in DOMAIN current : current[j] = CatchAllChild
             edge    == IF later /\ StartsWithCatchAll(segments[i]) THEN segments[i]
                        ELSE EdgeOf(segments[i])
             child   == Append(current, edge)
             created == IF HasNode(trie, child) THEN trie
                        ELSE (child :> NewNode(edge = CatchAllChild
                                 /\ StartsWithOptionalCatchAll(segments[i]))) @@ trie
             marked  == IF i = Len(segments)
                        THEN [created EXCEPT ![child].isProtected = <<isProtected>>]
                        ELSE created
         IN  AddSegments_FirstCatchAllOnly(marked, child, segments, i + 1, isProtected)

RECURSIVE AddSegments(_, _, _, _, _)
AddSegments(trie, current, segments, i, isProtected) ==
    IF i > Len(segments) THEN trie
    ELSE AddSegments(AddSegment(trie, current, segments[i], i = Len(segments), isProtected),
                     Append(current, EdgeOf(segments[i])), segments, i + 1, isProtected)

addRouteToTrie(root, route, isProtected) ==
    LET segments == SplitSegments(route)
        added    == AddSegments(root, <<>>, segments, 1, isProtected)
    IN  IF Len(segments) = 0
        THEN [added EXCEPT ![<<>>].isProtected = <<isProtected>>]
        ELSE added

RECURSIVE AddRoutes(_, _, _)
AddRoutes(root, routes, isProtected) ==
    IF routes = <<>> THEN root
    ELSE AddRoutes(addRouteToTrie(root, Head(routes), isProtected), Tail(routes), isProtected)

\* mutant: the public routes are added first, the protected routes last
buildRouteTrie_PublicFirst(map) ==
    AddRoutes(AddRoutes(EmptyTrie, map.public, FALSE), map.protected, TRUE)

buildRouteTrie(map) ==
    AddRoutes(AddRoutes(EmptyTrie, map.protected, TRUE), map.public, FALSE)

-----------------------------------------------------------------------------
(* Matcher.  A match is [isProtected, node, steps]: the boolean the source *)
(* returns, the position of the node whose isProtected supplied it         *)
(* (DefaultNode when the boolean is defaultProtected), and the steps made  *)
(* to find it: the calls of findMatch and the iterations of its loop.      *)

DefaultNode == <<"$default">>

Match(trie, pos, dflt) ==
    IF trie[pos].isProtected = Unset
    THEN [isProtected |-> dflt, node |-> DefaultNode, steps |-> 0]
    ELSE [isProtected |-> trie[pos].isProtected[1], node |-> pos, steps |-> 0]

DefaultMatch(dflt) == [isProtected |-> dflt, node |-> DefaultNode, steps |-> 0]

\* one more call of findMatch, or one more iteration of its loop
Step(match) == [match EXCEPT !.steps = @ + 1]

RECURSIVE findMatch(_, _, _, _, _)
RECURSIVE RestSegmentLoop(_, _, _, _, _)

\* the loop over tryRestSegmentMatch(i), i = index .. segments.length - 1,
\* followed by the fall back to the catch-all node's own status
RestSegmentLoop(trie, catchAll, segments, i, dflt) ==
    IF i > Len(segments) THEN Match(trie, catchAll, dflt)
    ELSE Step(IF HasChild(trie, catchAll, segments[i])
              THEN findMatch(trie, Append(catchAll, segments[i]), segments, i + 1, dflt)
              ELSE RestSegmentLoop(trie, catchAll, segments, i + 1, dflt))

\* mutant: the dynamic child is tried before the literal child
findMatch_DynamicFirst(trie, node, segments, index, dflt) ==
    LET catchAll == Append(node, CatchAllChild)
        dynamic  == Append(node, DynamicChild)
    IN  Step(
        IF index > Len(segments)
        THEN IF trie[node].isProtected # Unset THEN Match(trie, node, dflt)
             ELSE IF HasNode(trie, catchAll) /\ trie[catchAll].isOptional
                  THEN Match(trie, catchAll, dflt)
                  ELSE DefaultMatch(dflt)
        ELSE IF HasNode(trie, dynamic)
             THEN findMatch(trie, dynamic, segments, index + 1, dflt)
        ELSE IF HasChild(trie, node, segments[index])
             THEN findMatch(trie, Append(node, segments[index]), segments, index + 1, dflt)
        ELSE IF HasNode(trie, catchAll)
             THEN IF HasChildren(trie, catchAll)
                  THEN RestSegmentLoop(trie, catchAll, segments, index, dflt)
                  ELSE Match(trie, catchAll, dflt)
        ELSE DefaultMatch(dflt))

\* mutant: when the subtree of the literal child, or of the dynamic child,
\* ends in the default, the next branch of the node is tried
findMatch_Backtracking(trie, node, segments, index, dflt) ==
    LET catchAll   == Append(node, CatchAllChild)
        dynamic    == Append(node, DynamicChild)
        viaLiteral == findMatch(trie, Append(node, segments[index]), segments, index + 1, dflt)
        viaDynamic == findMatch(trie, dynamic, segments, index + 1, dflt)
    IN  Step(
        IF index > Len(segments)
        THEN IF trie[node].isProtected # Unset THEN Match(trie, node, dflt)
             ELSE IF HasNode(trie, catchAll) /\ trie[catchAll].isOptional
                  THEN Match(trie, catchAll, dflt)
                  ELSE DefaultMatch(dflt)
        ELSE IF HasChild(trie, node, segments[index]) /\ viaLiteral.node # DefaultNode
             THEN viaLiteral
        ELSE IF HasNode(trie, dynamic) /\ viaDynamic.node # DefaultNode
             THEN viaDynamic
        ELSE IF HasNode(trie, catchAll)
             THEN IF HasChildren(trie, catchAll)
                  THEN RestSegmentLoop(trie, catchAll, segments, index, dflt)
                  ELSE Match(trie, catchAll, dflt)
        ELSE DefaultMatch(dflt))

\* index is 1-based here: segments[index] is the current segment
findMatch(trie, node, segments, index, dflt) ==
    LET catchAll == Append(node, CatchAllChild)
        dynamic  == Append(node, DynamicChild)
    IN  Step(
        IF index > Len(segments)
        THEN IF trie[node].isProtected # Unset THEN Match(trie, node, dflt)
             ELSE IF HasNode(trie, catchAll) /\ trie[catchAll].isOptional
                  THEN Match(trie, catchAll, dflt)
                  ELSE DefaultMatch(dflt)
        ELSE IF HasChild(trie, node, segments[index])
             THEN findMatch(trie, Append(node, segments[index]), segments, index + 1, dflt)
        ELSE IF HasNode(trie, dynamic)
             THEN findMatch(trie, dynamic, segments, index + 1, dflt)
        ELSE IF HasNode(trie, catchAll)
             THEN IF HasChildren(trie, catchAll)
                  THEN RestSegmentLoop(trie, catchAll, segments, index, dflt)
                  ELSE Match(trie, catchAll, dflt)
        ELSE DefaultMatch(dflt))

\* mutant: the path is not cut at the '?'
CleanPath_NoQueryCut(path) ==
    LET cut == SplitFirst(path, "#")
    IN  IF Len(cut) > 1 /\ cut[Len(cut)] = Slash
        THEN SubSeq(cut, 1, Len(cut) - 1)
        ELSE cut

\* path.split('?')[0].split('#')[0], without one trailing slash
CleanPath(path) ==
    LET cut == SplitFirst(SplitFirst(path, "?"), "#")
    IN  IF Len(cut) > 1 /\ cut[Len(cut)] = Slash
        THEN SubSeq(cut, 1, Len(cut) - 1)
        ELSE cut

\* mutant: the path is split as it is, query and hash included
matchPath_Uncut(path, trie, dflt) ==
    IF path = <<Slash>>
    THEN Match(trie, <<>>, dflt)
    ELSE findMatch(trie, <<>>, SplitSegments(path), 1, dflt)

matchPath(path, trie, dflt) ==
    IF CleanPath(path) = <<Slash>>
    THEN Match(trie, <<>>, dflt)
    ELSE findMatch(trie, <<>>, SplitSegments(CleanPath(path)), 1, dflt)

-----------------------------------------------------------------------------
(* Regular expressions.  A RegExp is [isRegex, source, global]: source is  *)
(* its list of atoms (the anchors, a literal token, or one of Wildcards),  *)
(* global its g flag.  An entry of excludeUrls that is a string has        *)
(* isRegex = FALSE and its tokens in source.                               *)

ZeroOrMore == {".*", "(.*)"}

OneOrMore == {"(..*)"}

Wildcards == ZeroOrMore \cup OneOrMore

NoMatch == <<>>

Max(S) == CHOOSE n \in S : \A m \in S : m <= n

Min(S) == CHOOSE n \in S : \A m \in S : n <= m

\* Where a match of atoms[a..] that starts after the first `pos` tokens of str
\* ends, as <<end>>, or NoMatch.  A greedy quantifier takes the longest run
\* that lets the rest of the expression match (backtracking order).
RECURSIVE MatchAt(_, _, _, _)
MatchAt(atoms, a, str, pos) ==
    IF a > Len(atoms) THEN <<pos>>
    ELSE IF atoms[a] = "^"
         THEN IF pos = 0 THEN MatchAt(atoms, a + 1, str, pos) ELSE NoMatch
    ELSE IF atoms[a] = "$"
         THEN IF pos = Len(str) THEN MatchAt(atoms, a + 1, str, pos) ELSE NoMatch
    ELSE IF atoms[a] \in Wildcards
         THEN LET least == IF atoms[a] \in OneOrMore THEN 1 ELSE 0
                  runs  == {k \in least..(Len(str) - pos) :
                               MatchAt(atoms, a + 1, str, pos + k) # NoMatch}
              IN  IF runs = {} THEN NoMatch
                  ELSE MatchAt(atoms, a + 1, str, pos + Max(runs))
    ELSE IF pos < Len(str) /\ str[pos + 1] = atoms[a]
         THEN MatchAt(atoms, a + 1, str, pos + 1)
         ELSE NoMatch

\* the leftmost match that starts at or after `from`
RECURSIVE Exec(_, _, _)
Exec(atoms, str, from) ==
    IF from > Len(str) THEN NoMatch
    ELSE IF MatchAt(atoms, 1, str, from) # NoMatch THEN MatchAt(atoms, 1, str, from)
    ELSE Exec(atoms, str, from + 1)

\* regex.test(str) on a RegExp whose lastIndex is li: the result and the new
\* lastIndex.  Without the g flag the search starts at 0 and lastIndex stays.
RegExpTest(regex, li, str) ==
    LET found == Exec(regex.source, str, IF regex.global THEN li ELSE 0)
    IN  [result    |-> found # NoMatch,
         lastIndex |-> IF ~regex.global THEN li
                       ELSE IF found = NoMatch THEN 0 ELSE found[1]]

\* the replace of every star by dot-star in the string pattern, token by
\* token: the star inside a parenthesised dot-star group is replaced too
ReplaceStar(token) ==
    IF token = "*" THEN ".*"
    ELSE IF token = "(.*)" THEN "(..*)"
    ELSE token

\* new RegExp of the replaced pattern between the anchors
RegExpOfString(pattern) ==
    [isRegex |-> TRUE,
     source  |-> <<"^">> \o [i \in 1..Len(pattern) |-> ReplaceStar(pattern[i])] \o <<"$">>,
     global  |-> FALSE]

-----------------------------------------------------------------------------
(* The middleware *)

\* the exclusion loop of routeGuardMiddleware from entry i on: whether an
\* entry excluded the pathname, the tests made, and lastIndex afterwards
RECURSIVE ExclusionLoop(_, _, _, _, _)
ExclusionLoop(urls, i, li, path, tests) ==
    IF i > Len(urls) THEN [excluded |-> FALSE, lastIndex |-> li, tests |-> tests]
    ELSE LET pattern == urls[i]
             regex   == IF pattern.isRegex THEN pattern ELSE RegExpOfString(pattern.source)
             test    == RegExpTest(regex, IF pattern.isRegex THEN li[i] ELSE 0, path)
             li2     == IF pattern.isRegex THEN [li EXCEPT ![i] = test.lastIndex] ELSE li
         IN  IF test.result
             THEN [excluded |-> TRUE, lastIndex |-> li2, tests |-> tests + 1]
             ELSE ExclusionLoop(urls, i + 1, li2, path, tests + 1)

TestCalls(n) == [i \in 1..n |-> "regex.test"]

\* mutant: the middleware stores the classification it found for the
\* pathname as a route of the trie
HandleRequest_Memoizing(path) ==
    /\ pc = "idle"
    /\ LET loop == ExclusionLoop(excludeUrls, 1, lastIndex, path, 0)
           m    == matchPath(path, routeTrie, defaultProtected)
       IN  /\ pathname' = path
           /\ lastIndex' = loop.lastIndex
           /\ excluded' = loop.excluded
           /\ IF loop.excluded
              THEN /\ matched' = <<>>
                   /\ response' = "NextResponse.next"
                   /\ callLog' = TestCalls(loop.tests) \o <<"NextResponse.next">>
                   /\ pc' = "returned"
                   /\ routeTrie' = routeTrie
              ELSE /\ matched' = <<m>>
                   /\ routeTrie' = addRouteToTrie(routeTrie, CleanPath(path), m.isProtected)
                   /\ IF ~m.isProtected
                      THEN /\ response' = "NextResponse.next"
                           /\ callLog' = TestCalls(loop.tests)
                                            \o <<"matchPath", "NextResponse.next">>
                           /\ pc' = "returned"
                      ELSE /\ response' = "none"
                           /\ callLog' = TestCalls(loop.tests)
                                            \o <<"matchPath", "isAuthenticated">>
                           /\ pc' = "awaitAuth"
    /\ UNCHANGED <<options, routeMap, defaultProtected, excludeUrls, isAuthed, appDir>>
    /\ UNCHANGED chainVars
    /\ UNCHANGED callerVars
    /\ UNCHANGED watchVars

\* routeGuardMiddleware(request) up to its return or to the await of
\* isAuthenticated(request)
HandleRequest(path) ==
    /\ pc = "idle"
    /\ LET loop == ExclusionLoop(excludeUrls, 1, lastIndex, path, 0)
           m    == matchPath(path, routeTrie, defaultProtected)
       IN  /\ pathname' = path
           /\ lastIndex' = loop.lastIndex
           /\ excluded' = loop.excluded
           /\ IF loop.excluded
              THEN /\ matched' = <<>>
                   /\ response' = "NextResponse.next"
                   /\ callLog' = TestCalls(loop.tests) \o <<"NextResponse.next">>
                   /\ pc' = "returned"
              ELSE /\ matched' = <<m>>
                   /\ IF ~m.isProtected
                      THEN /\ response' = "NextResponse.next"
                           /\ callLog' = TestCalls(loop.tests)
                                            \o <<"matchPath", "NextResponse.next">>
                           /\ pc' = "returned"
                      ELSE /\ response' = "none"
                           /\ callLog' = TestCalls(loop.tests)
                                            \o <<"matchPath", "isAuthenticated">>
                           /\ pc' = "awaitAuth"
    /\ UNCHANGED <<options, routeMap, defaultProtected, excludeUrls, routeTrie, isAuthed, appDir>>
    /\ UNCHANGED chainVars
    /\ UNCHANGED callerVars
    /\ UNCHANGED watchVars

\* mutant: the test of isAuthed is inverted
AuthResolved_Inverted(authed) ==
    /\ pc = "awaitAuth"
    /\ isAuthed' = <<authed>>
    /\ IF ~authed
       THEN /\ response' = "NextResponse.next"
            /\ callLog' = Append(callLog, "NextResponse.next")
       ELSE /\ response' = "onUnauthenticated"
            /\ callLog' = Append(callLog, "onUnauthenticated")
    /\ pc' = "returned"
    /\ UNCHANGED <<options, routeMap, defaultProtected, excludeUrls, routeTrie, lastIndex,
                   pathname, excluded, matched, appDir>>
    /\ UNCHANGED chainVars
    /\ UNCHANGED callerVars
    /\ UNCHANGED watchVars

\* the rest of routeGuardMiddleware, once isAuthenticated(request) has
\* resolved to authed
AuthResolved(authed) ==
    /\ pc = "awaitAuth"
    /\ isAuthed' = <<authed>>
    /\ IF authed
       THEN /\ response' = "NextResponse.next"
            /\ callLog' = Append(callLog, "NextResponse.next")
       ELSE /\ response' = "onUnauthenticated"
            /\ callLog' = Append(callLog, "onUnauthenticated")
    /\ pc' = "returned"
    /\ UNCHANGED <<options, routeMap, defaultProtected, excludeUrls, routeTrie, lastIndex,
                   pathname, excluded, matched, appDir>>
    /\ UNCHANGED chainVars
    /\ UNCHANGED callerVars
    /\ UNCHANGED watchVars

\* the response is handed to the caller; the middleware waits for the next request
Returned ==
    /\ pc = "returned"
    /\ pc' = "idle"
    /\ pathname' = <<>>
    /\ excluded' = FALSE
    /\ matched' = <<>>
    /\ isAuthed' = <<>>
    /\ response' = "none"
    /\ callLog' = <<>>
    /\ UNCHANGED <<options, routeMap, defaultProtected, excludeUrls, routeTrie, lastIndex, appDir>>
    /\ UNCHANGED chainVars
    /\ UNCHANGED callerVars
    /\ UNCHANGED watchVars

DEFAULT_LOGIN_ROUTE == <<Slash, "login">>

\* the default of options.onUnauthenticated: the redirect to the request's
\* url with the pathname replaced and the search parameter 'from' set
DefaultOnUnauthenticated(path) == [pathname |-> DEFAULT_LOGIN_ROUTE, from |-> path]

\* the response reaches the client of a middleware that was created without
\* onUnauthenticated: a redirect is followed (the next request is for its
\* location) unless the client has followed MaxHops redirects in a row and
\* gives up; any other response ends the sequence
ReturnedToClient ==
    /\ pc = "returned"
    /\ IF response = "onUnauthenticated" /\ hops < MaxHops
       THEN /\ location' = <<DefaultOnUnauthenticated(pathname)>>
            /\ hops' = hops + 1
       ELSE /\ location' = <<>>
            /\ hops' = 0
    /\ pc' = "idle"
    /\ pathname' = <<>>
    /\ excluded' = FALSE
    /\ matched' = <<>>
    /\ isAuthed' = <<>>
    /\ response' = "none"
    /\ callLog' = <<>>
    /\ UNCHANGED <<options, routeMap, defaultProtected, excludeUrls, routeTrie, lastIndex,
                   appDir, suspended, secondTrie>>
    /\ UNCHANGED chainVars
    /\ UNCHANGED watchVars

\* the client's next request: for the location of the redirect it received
\* last, or for any path when the last response was no redirect
ClientRequest(path) ==
    /\ location # <<>> => path = location[1].pathname
    /\ HandleRequest(path)

\* the local variables of the request in hand
Locals == [pathname |-> pathname, matched |-> matched, callLog |-> callLog]

\* the request in hand waits at `await isAuthenticated(request)` and the
\* event loop is free to run the middleware for another request
Suspend ==
    /\ pc = "awaitAuth"
    /\ Cardinality(suspended) < MaxSuspended
    /\ Locals \notin suspended
    /\ suspended' = suspended \cup {Locals}
    /\ pc' = "idle"
    /\ pathname' = <<>>
    /\ matched' = <<>>
    /\ callLog' = <<>>
    /\ UNCHANGED <<options, routeMap, defaultProtected, excludeUrls, routeTrie, lastIndex,
                   excluded, isAuthed, response, appDir, secondTrie, location, hops>>
    /\ UNCHANGED chainVars
    /\ UNCHANGED watchVars

\* the promise of a suspended request is about to settle: the request is
\* in hand again, at its await
Resume ==
    /\ pc = "idle"
    /\ \E request \in suspended :
          /\ suspended' = suspended \ {request}
          /\ pathname' = request.pathname
          /\ matched' = request.matched
          /\ callLog' = request.callLog
    /\ pc' = "awaitAuth"
    /\ UNCHANGED <<options, routeMap, defaultProtected, excludeUrls, routeTrie, lastIndex,
                   excluded, isAuthed, response, appDir, secondTrie, location, hops>>
    /\ UNCHANGED chainVars
    /\ UNCHANGED watchVars

\* mutant: the build takes the routes off the lists of the route map
BuildAgain_Consuming ==
    /\ pc = "idle"
    /\ secondTrie' = <<buildRouteTrie(routeMap)>>
    /\ routeMap' = [protected |-> <<>>, public |-> <<>>]
    /\ UNCHANGED <<options, defaultProtected, excludeUrls, routeTrie, lastIndex, pc,
                   pathname, excluded, matched, isAuthed, response, callLog, appDir,
                   suspended, location, hops>>
    /\ UNCHANGED chainVars
    /\ UNCHANGED watchVars

\* buildRouteTrie(routeMap) is called once more with the route map the
\* middleware was created with: the two loops read the lists
BuildAgain ==
    /\ pc = "idle"
    /\ secondTrie' = <<buildRouteTrie(routeMap)>>
    /\ routeMap' = routeMap
    /\ UNCHANGED <<options, defaultProtected, excludeUrls, routeTrie, lastIndex, pc,
                   pathname, excluded, matched, isAuthed, response, callLog, appDir,
                   suspended, location, hops>>
    /\ UNCHANGED chainVars
    /\ UNCHANGED watchVars

\* matchPath(path, routeTrie, defaultProtected) applied on its own
Classify(path) ==
    /\ pc = "idle"
    /\ pathname' = path
    /\ matched' = <<matchPath(path, routeTrie, defaultProtected)>>
    /\ pc' = "matched"
    /\ UNCHANGED <<options, routeMap, defaultProtected, excludeUrls, routeTrie, lastIndex,
                   excluded, isAuthed, response, callLog, appDir>>
    /\ UNCHANGED chainVars
    /\ UNCHANGED callerVars
    /\ UNCHANGED watchVars

-----------------------------------------------------------------------------
(* chain.  An entry of the list is one of the factories of the README and  *)
(* the tests, or the middleware createRouteGuardMiddleware returned:       *)
(*   withLogging   next => async request => next(request)                  *)
(*   withHeaders   next => async request => { response = await             *)
(*                 next(request); ...; return response }                   *)
(*   withResponse  next => async request => a response of its own          *)
(*   routeGuardMiddleware   async request => ..., not a factory            *)
(* A middleware value is [calls, last]: the entries whose middleware it    *)
(* calls one after the other through next, and what the innermost next     *)
(* is: the end middleware "() => undefined", or "promise", a value that    *)
(* is not a function.                                                      *)

Factories == {"withLogging", "withHeaders", "withResponse"}

RouteGuardMiddleware == "routeGuardMiddleware"

\* the middleware of the entry returns what next(request) returns
CallsNext(entry) == entry \in {"withLogging", "withHeaders"}

EndMiddleware == [calls |-> <<>>, last |-> "end"]

\* current(next).  routeGuardMiddleware takes next for its request: it is
\* an async function, the read of request.nextUrl.pathname throws, and the
\* call returns a rejected promise.
ApplyCurrent(fns, index, next) ==
    IF fns[index] = RouteGuardMiddleware
    THEN [calls |-> <<>>, last |-> "promise"]
    ELSE [calls |-> <<index>> \o next.calls, last |-> next.last]

\* mutant: the factories are applied in the opposite order
RECURSIVE chain_Reversed(_, _)
chain_Reversed(fns, index) ==
    IF index > Len(fns) THEN EndMiddleware
    ELSE LET next == chain_Reversed(fns, index + 1)
         IN  IF fns[index] = RouteGuardMiddleware
             THEN [calls |-> <<>>, last |-> "promise"]
             ELSE [calls |-> next.calls \o <<index>>, last |-> next.last]

\* chain(functions, index); index is 1-based here
RECURSIVE chain(_, _)
chain(fns, index) ==
    IF index > Len(fns) THEN EndMiddleware
    ELSE ApplyCurrent(fns, index, chain(fns, index + 1))

\* the exported middleware is called with a request
ChainRequest(path) ==
    /\ pc = "idle"
    /\ pathname' = path
    /\ running' = middleware
    /\ ran' = <<>>
    /\ pc' = "inChain"
    /\ UNCHANGED <<options, routeMap, defaultProtected, excludeUrls, routeTrie, lastIndex,
                   excluded, matched, isAuthed, response, callLog, appDir,
                   functions, middleware>>
    /\ UNCHANGED callerVars
    /\ UNCHANGED watchVars

\* the call of the running middleware: of the exported one at first, then
\* next(request) in the middleware that ran last.  Calling what is not a
\* function throws a TypeError; the end middleware returns undefined; every
\* caller up the chain returns what its next returned.
CallMiddleware ==
    /\ pc = "inChain"
    /\ IF running.calls = <<>>
       THEN /\ response' = IF running.last = "end" THEN "undefined" ELSE "TypeError"
            /\ pc' = "chainReturned"
            /\ UNCHANGED <<running, ran>>
       ELSE LET index == Head(running.calls)
            IN  /\ ran' = Append(ran, index)
                /\ IF CallsNext(functions[index])
                   THEN /\ running' = [running EXCEPT !.calls = Tail(running.calls)]
                        /\ UNCHANGED <<response, pc>>
                   ELSE /\ response' = "response"
                        /\ pc' = "chainReturned"
                        /\ UNCHANGED running
    /\ UNCHANGED <<options, routeMap, defaultProtected, excludeUrls, routeTrie, lastIndex,
                   pathname, excluded, matched, isAuthed, callLog, appDir,
                   functions, middleware>>
    /\ UNCHANGED callerVars
    /\ UNCHANGED watchVars

\* the result is handed to the caller; the chain waits for the next request
ChainReturned ==
    /\ pc = "chainReturned"
    /\ pc' = "idle"
    /\ pathname' = <<>>
    /\ response' = "none"
    /\ running' = EndMiddleware
    /\ ran' = <<>>
    /\ UNCHANGED <<options, routeMap, defaultProtected, excludeUrls, routeTrie, lastIndex,
                   excluded, matched, isAuthed, callLog, appDir, functions, middleware>>
    /\ UNCHANGED callerVars
    /\ UNCHANGED watchVars

-----------------------------------------------------------------------------
(* generateRouteMap.  A directory name is a route group (in parentheses)   *)
(* or a segment of the route; no directory of the inputs is node_modules   *)
(* or starts with a dot.                                                   *)

RouteGroups == {"(public)", "(protected)", "(marketing)"}

\* item.startsWith('(') && item.endsWith(')')
IsRouteGroup(item) == item \in RouteGroups

\* the defaults of the parameters publicPatterns and protectedPatterns
DefaultPublicPatterns == {"(public)"}

DefaultProtectedPatterns == {"(protected)"}

\* what scanDirectory has in `groups` and in `segments` at a page
GroupsOf(dirs) == SelectSeq(dirs, IsRouteGroup)

SegmentsOf(dirs) == SelectSeq(dirs, LAMBDA item : ~IsRouteGroup(item))

\* the loop over `groups` from index i on: the first group that is in one
\* of the pattern lists decides and ends the loop; isProtected starts true
RECURSIVE GroupLoop(_, _, _, _)
GroupLoop(groups, i, publicPatterns, protectedPatterns) ==
    IF i > Len(groups) THEN TRUE
    ELSE IF groups[i] \in publicPatterns THEN FALSE
    ELSE IF groups[i] \in protectedPatterns THEN TRUE
    ELSE GroupLoop(groups, i + 1, publicPatterns, protectedPatterns)

PageIsProtected(dirs, publicPatterns, protectedPatterns) ==
    GroupLoop(GroupsOf(dirs), 1, publicPatterns, protectedPatterns)

\* routePath of the page file in the directory dirs
RoutePath(dirs) == StringOf(SegmentsOf(dirs))

\* the order of Array.prototype.sort on the route strings: code unit by
\* code unit, a prefix first; "/" sorts before every letter
CodeUnitOrder == <<"/", "docs", "help">>

Rank(token) == CHOOSE i \in DOMAIN CodeUnitOrder : CodeUnitOrder[i] = token

RECURSIVE StringLess(_, _)
StringLess(a, b) ==
    IF b = <<>> THEN FALSE
    ELSE IF a = <<>> THEN TRUE
    ELSE IF Head(a) = Head(b) THEN StringLess(Tail(a), Tail(b))
    ELSE Rank(Head(a)) < Rank(Head(b))

\* the routes pushed for the pages, one per page, after .sort()
RECURSIVE SortedRoutes(_)
SortedRoutes(pages) ==
    IF pages = {} THEN <<>>
    ELSE LET first == CHOOSE p \in pages :
                          \A q \in pages : ~StringLess(RoutePath(q), RoutePath(p))
         IN  <<RoutePath(first)>> \o SortedRoutes(pages \ {first})

generateRouteMap(dir, publicPatterns, protectedPatterns) ==
    [protected |-> SortedRoutes({p \in dir :
                       PageIsProtected(p, publicPatterns, protectedPatterns)}),
     public    |-> SortedRoutes({p \in dir :
                       ~PageIsProtected(p, publicPatterns, protectedPatterns)})]

\* generateRouteMap(appDir) with the default patterns
GenerateRouteMap ==
    /\ pc = "idle"
    /\ routeMap' = generateRouteMap(appDir, DefaultPublicPatterns, DefaultProtectedPatterns)
    /\ pc' = "generated"
    /\ UNCHANGED <<options, defaultProtected, excludeUrls, routeTrie, lastIndex, pathname,
                   excluded, matched, isAuthed, response, callLog, appDir>>
    /\ UNCHANGED chainVars
    /\ UNCHANGED callerVars
    /\ UNCHANGED watchVars

-----------------------------------------------------------------------------
(* The route watcher.  Time is counted in ticks of TickMs milliseconds.    *)
(* The event loop runs a timer that is due before it delivers the file     *)
(* events of the same tick, and the clock does not pass a due timer.       *)
(* generateAndSaveRouteMap is synchronous: nothing runs in the middle of   *)
(* it.  The file route-map.json it writes is routeMap.                     *)

TickMs == 100

\* the delay of the setTimeout of debouncedUpdate
DebounceMs == 300

DebounceTicks == DebounceMs \div TickMs

\* path.includes('/page.') || path.includes('/layout.')
IsPageOrLayout(file) == file.name \in {"page", "layout"}

\* a timer is pending and its time has come
TimerDue == timeout # <<>> /\ now >= timeout[1]

\* the watcher delivers an event now
Delivers == now <= MaxTime /\ ~TimerDue

\* mutant: a pending timer is left alone and no new one is set
debouncedUpdate_KeepsTimer ==
    /\ timeout' = IF timeout # <<>> THEN timeout ELSE <<now + DebounceTicks>>
    /\ bursts' = IF lastEvent = <<>> \/ now - lastEvent[1] >= DebounceTicks
                 THEN bursts + 1 ELSE bursts
    /\ lastEvent' = <<now>>

\* clearTimeout(timeout); timeout = setTimeout(..., 300)
debouncedUpdate ==
    /\ timeout' = <<now + DebounceTicks>>
    /\ bursts' = IF lastEvent = <<>> \/ now - lastEvent[1] >= DebounceTicks
                 THEN bursts + 1 ELSE bursts
    /\ lastEvent' = <<now>>

\* what no action of the watcher changes
WatcherFrame ==
    /\ UNCHANGED <<options, defaultProtected, excludeUrls, routeTrie, lastIndex, pc,
                   pathname, excluded, matched, isAuthed, response, callLog>>
    /\ UNCHANGED chainVars
    /\ UNCHANGED callerVars

\* watcher.on('add'): a file was added to the app directory
OnAdd(file) ==
    /\ Delivers
    /\ file.name = "page" => file.dirs \notin appDir
    /\ appDir' = IF file.name = "page" THEN appDir \cup {file.dirs} ELSE appDir
    /\ IF IsPageOrLayout(file)
       THEN debouncedUpdate
       ELSE UNCHANGED <<timeout, lastEvent, bursts>>
    /\ UNCHANGED <<routeMap, now, regenerations>>
    /\ WatcherFrame

\* watcher.on('unlink'): a file was removed from the app directory
OnUnlink(file) ==
    /\ Delivers
    /\ file.name = "page" => file.dirs \in appDir
    /\ appDir' = IF file.name = "page" THEN appDir \ {file.dirs} ELSE appDir
    /\ IF IsPageOrLayout(file)
       THEN debouncedUpdate
       ELSE UNCHANGED <<timeout, lastEvent, bursts>>
    /\ UNCHANGED <<routeMap, now, regenerations>>
    /\ WatcherFrame

\* watcher.on('addDir')
OnAddDir ==
    /\ Delivers
    /\ debouncedUpdate
    /\ UNCHANGED <<routeMap, appDir, now, regenerations>>
    /\ WatcherFrame

\* watcher.on('unlinkDir'): the directory is empty by then
OnUnlinkDir ==
    /\ Delivers
    /\ debouncedUpdate
    /\ UNCHANGED <<routeMap, appDir, now, regenerations>>
    /\ WatcherFrame

\* the callback of the timer: generateAndSaveRouteMap()
TimerFires ==
    /\ TimerDue
    /\ timeout' = <<>>
    /\ routeMap' = generateRouteMap(appDir, DefaultPublicPatterns, DefaultProtectedPatterns)
    /\ regenerations' = regenerations + 1
    /\ UNCHANGED <<appDir, now, lastEvent, bursts>>
    /\ WatcherFrame

\* TickMs milliseconds pass
Tick ==
    /\ now < MaxTime
    /\ ~TimerDue
    /\ now' = now + 1
    /\ UNCHANGED <<routeMap, appDir, timeout, lastEvent, regenerations, bursts>>
    /\ WatcherFrame

-----------------------------------------------------------------------------
(* Inputs *)

SeqsUpTo(S, n) == UNION {[1..k -> S] : k \in 0..n}

\* the routes of the matcher's route maps: a base ("/" or "/docs"), then
\* nothing or one segment of each form, then nothing or the rest segment "edit"
Patterns ==
    {<<>>, <<"docs">>}
    \cup {base \o <<s>> \o rest :
            base \in {<<>>, <<"docs">>},
            s \in {"[id]", "[...slug]", "[[...slug]]"},
            rest \in {<<>>, <<"edit">>}}
    \cup {<<"docs", "edit">>, <<"docs", "edit", "edit">>}

\* the routes of the middleware's route maps
GuardPatterns ==
    {<<>>, <<"docs">>, <<"docs", "[...slug]">>, <<"api", "[[...slug]]">>}

RouteMaps(patterns) ==
    UNION {{[protected |-> [i \in 1..Len(a) |-> StringOf(a[i])],
             public    |-> [i \in 1..Len(b) |-> StringOf(b[i])]] :
                b \in SeqsUpTo(patterns, MaxRoutes - Len(a))} :
           a \in SeqsUpTo(patterns, MaxRoutes)}

\* request paths: "/" or up to MaxPathLen segments, the first "docs" or
\* "api", the later ones "edit" or "api" ("api" is in no route of Patterns)
PathSegments ==
    {s \in SeqsUpTo({"docs", "edit", "api"}, MaxPathLen) :
        /\ Len(s) >= 1 => s[1] \in {"docs", "api"}
        /\ \A i \in 2..Len(s) : s[i] \in {"edit", "api"}}

Paths == {StringOf(s) : s \in PathSegments}

\* the ways a caller writes the same path: with a trailing slash, with a
\* query and a hash, with a hash alone, with doubled slashes between the
\* segments, with doubled slashes after them
VariantKinds ==
    {"same", "trailingSlash", "queryAndHash", "hash", "slashesBetween", "slashesAfter"}

RECURSIVE DoubleSlashes(_)
DoubleSlashes(str) ==
    IF str = <<>> THEN <<>>
    ELSE IF Head(str) = Slash THEN <<Slash, Slash>> \o DoubleSlashes(Tail(str))
    ELSE <<Head(str)>> \o DoubleSlashes(Tail(str))

Variant(path, kind) ==
    CASE kind = "same"           -> path
      [] kind = "trailingSlash"  -> path \o <<Slash>>
      [] kind = "queryAndHash"   -> path \o <<"?", "x=1", "#", "y">>
      [] kind = "hash"           -> path \o <<"#", "y">>
      [] kind = "slashesBetween" -> <<Head(path)>> \o DoubleSlashes(Tail(path))
      [] kind = "slashesAfter"   -> path \o <<Slash, Slash>>

\* strings that are no pathname: empty, without the leading slash, a query
\* or a hash alone
OtherStrings ==
    {<<>>, <<"docs">>, <<"docs", Slash, "edit">>, <<"?", "x=1">>, <<"#", "y">>}

\* the routes of the route maps the path variants are matched against
NormPatterns ==
    {<<>>, <<"docs">>, <<"docs", "[id]">>, <<"docs", "[...slug]">>,
     <<"docs", "[[...slug]]", "edit">>, <<"docs", "edit">>}

\* the directories of the page files: up to MaxDirs names, groups and segments
PageDirs == SeqsUpTo(RouteGroups \cup {"docs", "help"}, MaxDirs)

\* the app directories: one page file or two
AppDirs == {{p, q} : p \in PageDirs, q \in PageDirs}

\* the routes with more than one catch-all segment, and routes beside them
NestedPatterns ==
    {<<"[[...slug]]", "edit", "[[...slug]]", "api">>,
     <<"[[...slug]]", "edit", "[[...slug]]">>,
     <<"[...slug]", "edit", "[...slug]">>,
     <<"[[...slug]]", "edit">>,
     <<"docs">>}

\* request paths of up to MaxPathLen segments, each any of the names
PathsOver(names) == {StringOf(s) : s \in SeqsUpTo(names, MaxPathLen)}

NestedPaths == PathsOver({"docs", "edit", "api"})

\* routes with an unclosed bracket, and routes beside them
MalformedPatterns ==
    {<<"docs", "[id">>, <<"docs", "[...slug">>, <<"[id", "edit">>, <<"docs">>}

\* request paths whose segments may have the text of these segments
MalformedPaths == PathsOver({"docs", "edit", "[id", "[...slug"})

\* the optional fields of the options: defaultProtected omitted or given,
\* excludeUrls omitted or given as the empty list
OptionChoices ==
    [defaultProtected : {<<>>, <<TRUE>>, <<FALSE>>},
     excludeUrls : {<<>>, << <<>> >>}]

\* the routes of the route maps of these middlewares
DefaultsPatterns ==
    {<<>>, <<"docs">>, <<"docs", "[...slug]", "edit">>, <<"api", "[[...slug]]">>}

\* request.nextUrl.pathname: the paths, and the non-root ones with a
\* trailing slash
Pathnames == Paths \cup {p \o <<Slash>> : p \in Paths \ {<<Slash>>}}

\* the lists given to chain: up to MaxChain entries
ChainLists == SeqsUpTo(Factories \cup {RouteGuardMiddleware}, MaxChain)

\* the route map of the guard that is put in a chain
ChainRouteMaps ==
    {[protected |-> <<StringOf(<<"docs">>)>>, public |-> <<StringOf(<<>>)>>]}

\* the routes of the route maps of the middleware whose requests overlap
InterleavedPatterns == {<<"docs">>, <<"docs", "[...slug]">>}

\* the request paths of these requests: up to MaxPathLen - 1 segments
InterleavedPaths == {p \in Paths : Len(SplitSegments(p)) < MaxPathLen}

\* the routes of the route maps of the middleware that redirects
RedirectPatterns == {<<>>, <<"docs">>, <<"login">>, <<"docs", "[...slug]">>}

\* the request paths of its clients
RedirectPaths ==
    {StringOf(segs) : segs \in {<<>>, <<"docs">>, <<"docs", "edit">>, <<"login">>}}

\* the files that are added to and removed from the watched directory: a
\* page, a layout or another file in one of two directories
WatchedFiles ==
    [dirs : {<<"(public)", "docs">>, <<"(protected)", "help">>},
     name : {"page", "layout", "other"}]

\* routes that give a node children of several types: literal, dynamic and
\* catch-all children of the root and of "/docs", and a rest segment
BranchPatterns ==
    {<<"docs">>, <<"docs", "edit">>, <<"[id]">>, <<"[id]", "edit">>, <<"[...slug]">>,
     <<"[...slug]", "edit">>, <<"docs", "[id]">>, <<"docs", "[...slug]">>}

StringEntry(tokens) == [isRegex |-> FALSE, source |-> tokens, global |-> FALSE]

RegExpEntry(atoms, g) == [isRegex |-> TRUE, source |-> atoms, global |-> g]

\* the default of options.excludeUrls: everything under /api/
DefaultExcludeUrls == <<StringEntry(<<"/", "api", "/", "(.*)">>)>>

\* none, the default, a RegExp for /docs/..., a global RegExp for /api/...
ExcludeUrlsChoices ==
    {<<>>,
     DefaultExcludeUrls,
     <<RegExpEntry(<<"^", "/", "docs", "/">>, FALSE)>>,
     <<RegExpEntry(<<"^", "/", "api", "/">>, TRUE)>>}

-----------------------------------------------------------------------------
(* Specifications *)

\* no request is suspended, nothing was built again, no redirect was sent
NoCallers ==
    /\ suspended = {}
    /\ secondTrie = <<>>
    /\ location = <<>>
    /\ hops = 0

\* the route watcher does not run
WatcherOff ==
    /\ timeout = <<>>
    /\ now = 0
    /\ lastEvent = <<>>
    /\ regenerations = 0
    /\ bursts = 0

\* a destructured option: its value, or the default where it was omitted
OptionOr(option, default) == IF option = <<>> THEN default ELSE option[1]

\* the state right after createRouteGuardMiddleware(options)
CreatedWith(maps, optionChoices) ==
    /\ routeMap \in maps
    /\ options \in optionChoices
    /\ defaultProtected = OptionOr(options.defaultProtected, TRUE)
    /\ excludeUrls = OptionOr(options.excludeUrls, DefaultExcludeUrls)
    /\ routeTrie = buildRouteTrie(routeMap)
    /\ lastIndex = [i \in 1..Len(excludeUrls) |-> 0]
    /\ pc = "idle"
    /\ pathname = <<>>
    /\ excluded = FALSE
    /\ matched = <<>>
    /\ isAuthed = <<>>
    /\ response = "none"
    /\ callLog = <<>>
    /\ appDir = {}
    /\ functions = <<>>
    /\ middleware = chain(functions, 1)
    /\ running = EndMiddleware
    /\ ran = <<>>
    /\ NoCallers
    /\ WatcherOff

\* both options given: either value of defaultProtected, a list of urls
Created(maps, urls) ==
    CreatedWith(maps, [defaultProtected : {<<TRUE>>, <<FALSE>>},
                       excludeUrls : {<<u>> : u \in urls}])

Init == Created(RouteMaps(GuardPatterns), ExcludeUrlsChoices)

Next ==
    \/ \E path \in Paths : HandleRequest(path)
    \/ \E authed \in BOOLEAN : AuthResolved(authed)
    \/ Returned

Spec == Init /\ [][Next]_vars

\* the middleware with requests that overlap at the await
InitInterleaved == Created(RouteMaps(InterleavedPatterns), {DefaultExcludeUrls})

NextInterleaved ==
    \/ \E path \in InterleavedPaths : HandleRequest(path)
    \/ \E authed \in BOOLEAN : AuthResolved(authed)
    \/ Returned
    \/ Suspend
    \/ Resume

SpecInterleaved == InitInterleaved /\ [][NextInterleaved]_vars

\* a second trie is built from the route map of the middleware
InitBuild == Created(RouteMaps(BranchPatterns), {DefaultExcludeUrls})

NextBuild == BuildAgain

SpecBuild == InitBuild /\ [][NextBuild]_vars

\* the middleware with the default onUnauthenticated and a client that
\* follows its redirects
InitRedirect == CreatedWith(RouteMaps(RedirectPatterns), OptionChoices)

NextRedirect ==
    \/ \E path \in RedirectPaths : ClientRequest(path)
    \/ \E authed \in BOOLEAN : AuthResolved(authed)
    \/ ReturnedToClient

SpecRedirect == InitRedirect /\ [][NextRedirect]_vars

\* the route watcher from its start: the route map of the empty app
\* directory was generated and saved, no timer is set
InitWatch ==
    /\ appDir = {}
    /\ routeMap = generateRouteMap(appDir, DefaultPublicPatterns, DefaultProtectedPatterns)
    /\ options = [defaultProtected |-> <<>>, excludeUrls |-> <<>>]
    /\ defaultProtected = OptionOr(options.defaultProtected, TRUE)
    /\ excludeUrls = OptionOr(options.excludeUrls, DefaultExcludeUrls)
    /\ routeTrie = EmptyTrie
    /\ lastIndex = [i \in 1..Len(excludeUrls) |-> 0]
    /\ pc = "idle"
    /\ pathname = <<>>
    /\ excluded = FALSE
    /\ matched = <<>>
    /\ isAuthed = <<>>
    /\ response = "none"
    /\ callLog = <<>>
    /\ functions = <<>>
    /\ middleware = chain(functions, 1)
    /\ running = EndMiddleware
    /\ ran = <<>>
    /\ NoCallers
    /\ timeout = <<>>
    /\ now = 0
    /\ lastEvent = <<>>
    /\ regenerations = 0
    /\ bursts = 0

NextWatch ==
    \/ \E file \in WatchedFiles : OnAdd(file)
    \/ \E file \in WatchedFiles : OnUnlink(file)
    \/ OnAddDir
    \/ OnUnlinkDir
    \/ TimerFires
    \/ Tick

SpecWatch == InitWatch /\ [][NextWatch]_vars

\* the matcher on tries whose nodes have children of several types
InitBranch == Created(RouteMaps(BranchPatterns), {DefaultExcludeUrls})

NextBranch == \E path \in Paths : Classify(path)

SpecBranch == InitBranch /\ [][NextBranch]_vars

\* the matcher alone, on the route maps of Patterns
InitMatch == Created(RouteMaps(Patterns), {DefaultExcludeUrls})

NextMatch == \E path \in Paths : Classify(path)

SpecMatch == InitMatch /\ [][NextMatch]_vars

\* the matcher on the written variants of the paths
InitNorm == Created(RouteMaps(NormPatterns), {DefaultExcludeUrls})

NextNorm ==
    \/ \E path \in Paths : \E kind \in VariantKinds : Classify(Variant(path, kind))
    \/ \E str \in OtherStrings : Classify(str)

SpecNorm == InitNorm /\ [][NextNorm]_vars

\* the matcher on routes with several catch-all segments
InitNested == Created(RouteMaps(NestedPatterns), {DefaultExcludeUrls})

NextNested == \E path \in NestedPaths : Classify(path)

SpecNested == InitNested /\ [][NextNested]_vars

\* the matcher on routes with an unclosed bracket
InitMalformed == Created(RouteMaps(MalformedPatterns), {DefaultExcludeUrls})

NextMalformed == \E path \in MalformedPaths : Classify(path)

SpecMalformed == InitMalformed /\ [][NextMalformed]_vars

\* the middleware created with options given or omitted, on pathnames with
\* and without a trailing slash
InitDefaults == CreatedWith(RouteMaps(DefaultsPatterns), OptionChoices)

NextDefaults ==
    \/ \E path \in Pathnames : HandleRequest(path)
    \/ \E authed \in BOOLEAN : AuthResolved(authed)
    \/ Returned

SpecDefaults == InitDefaults /\ [][NextDefaults]_vars

\* a guard is created and the module exports chain(functions)
InitChain ==
    /\ routeMap \in ChainRouteMaps
    /\ options \in [defaultProtected : {<<TRUE>>, <<FALSE>>}, excludeUrls : {<<>>}]
    /\ defaultProtected = OptionOr(options.defaultProtected, TRUE)
    /\ excludeUrls = OptionOr(options.excludeUrls, DefaultExcludeUrls)
    /\ routeTrie = buildRouteTrie(routeMap)
    /\ lastIndex = [i \in 1..Len(excludeUrls) |-> 0]
    /\ pc = "idle"
    /\ pathname = <<>>
    /\ excluded = FALSE
    /\ matched = <<>>
    /\ isAuthed = <<>>
    /\ response = "none"
    /\ callLog = <<>>
    /\ appDir = {}
    /\ functions \in ChainLists
    /\ middleware = chain(functions, 1)
    /\ running = EndMiddleware
    /\ ran = <<>>
    /\ NoCallers
    /\ WatcherOff

NextChain ==
    \/ \E path \in Paths : ChainRequest(path)
    \/ CallMiddleware
    \/ ChainReturned

SpecChain == InitChain /\ [][NextChain]_vars

\* generateRouteMap on the app directories; no middleware is created
InitGenerate ==
    /\ appDir \in AppDirs
    /\ routeMap = [protected |-> <<>>, public |-> <<>>]
    /\ options = [defaultProtected |-> <<>>, excludeUrls |-> <<>>]
    /\ defaultProtected = OptionOr(options.defaultProtected, TRUE)
    /\ excludeUrls = OptionOr(options.excludeUrls, DefaultExcludeUrls)
    /\ routeTrie = EmptyTrie
    /\ lastIndex = [i \in 1..Len(excludeUrls) |-> 0]
    /\ pc = "idle"
    /\ pathname = <<>>
    /\ excluded = FALSE
    /\ matched = <<>>
    /\ isAuthed = <<>>
    /\ response = "none"
    /\ callLog = <<>>
    /\ functions = <<>>
    /\ middleware = chain(functions, 1)
    /\ running = EndMiddleware
    /\ ran = <<>>
    /\ NoCallers
    /\ WatcherOff

NextGenerate == GenerateRouteMap

SpecGenerate == InitGenerate /\ [][NextGenerate]_vars

-----------------------------------------------------------------------------
(* What the claims talk about *)

\* the segments of the request in hand and the matcher's answer for it
Segments == SplitSegments(pathname)

Classified == pc = "matched"

IsProtected == matched[1].isProtected

ProtectedRoutes == {SplitSegments(routeMap.protected[i]) : i \in DOMAIN routeMap.protected}

PublicRoutes == {SplitSegments(routeMap.public[i]) : i \in DOMAIN routeMap.public}

Routes == ProtectedRoutes \cup PublicRoutes

IsCatchAll(segment) == segment \in CatchAllSegments \cup OptionalCatchAllSegments

\* the route grammar: a literal segment matches itself, [name] exactly one
\* segment, [...name] one or more segments, [[...name]] zero or more segments
RECURSIVE RouteMatches(_, _)
RouteMatches(route, segs) ==
    IF route = <<>> THEN segs = <<>>
    ELSE IF Head(route) \in OptionalCatchAllSegments
         THEN \E k \in 0..Len(segs) :
                  RouteMatches(Tail(route), SubSeq(segs, k + 1, Len(segs)))
    ELSE IF Head(route) \in CatchAllSegments
         THEN \E k \in 1..Len(segs) :
                  RouteMatches(Tail(route), SubSeq(segs, k + 1, Len(segs)))
    ELSE IF Head(route) \in DynamicSegments
         THEN segs # <<>> /\ RouteMatches(Tail(route), Tail(segs))
    ELSE segs # <<>> /\ Head(segs) = Head(route) /\ RouteMatches(Tail(route), Tail(segs))

Registered(segs) == \E r \in Routes : RouteMatches(r, segs)

\* the classification the route map registers for segs: public when a public
\* route matches (public overrides), else protected
RegisteredProtected(segs) == ~ \E r \in PublicRoutes : RouteMatches(r, segs)

Prefix(segs, n) == SubSeq(segs, 1, n)

Suffix(segs, n) == SubSeq(segs, n, Len(segs))

\* the trie position at which a route terminates
PositionOf(route) == [i \in 1..Len(route) |-> EdgeOf(route[i])]

\* C1: a path that matches a protected route and no public route is
\* classified protected, whatever defaultProtected is.
C1_ProtectedRouteIsProtected ==
    (/\ Classified
     /\ \E r \in ProtectedRoutes : RouteMatches(r, Segments)
     /\ ~ \E r \in PublicRoutes : RouteMatches(r, Segments))
    => IsProtected

\* C2: a path with no rule registered at its exact depth gets the
\* classification of its deepest registered ancestor prefix, or
\* defaultProtected when no ancestor is registered.
C2_Inheritance ==
    (Classified /\ ~Registered(Segments)) =>
        LET ancestors == {n \in 0..(Len(Segments) - 1) : Registered(Prefix(Segments, n))}
        IN  IsProtected = IF ancestors = {} THEN defaultProtected
                          ELSE RegisteredProtected(Prefix(Segments, Max(ancestors)))

\* the rest-segment chains registered after the catch-all of the node at base
RestChains(base, routes) ==
    {Suffix(r, Len(base) + 2) :
        r \in {q \in routes : /\ Len(q) > Len(base) + 1
                              /\ Prefix(q, Len(base)) = base
                              /\ IsCatchAll(q[Len(base) + 1])}}

\* the matcher reaches the catch-all of the node at base: base is the walk
\* of literal children, and the next segment has no literal and no dynamic
\* child there
TakesCatchAll(base) ==
    /\ Len(base) < Len(Segments)
    /\ Prefix(Segments, Len(base)) = base
    /\ HasNode(routeTrie, base)
    /\ HasNode(routeTrie, Append(base, CatchAllChild))
    /\ ~HasChild(routeTrie, base, Segments[Len(base) + 1])
    /\ ~HasNode(routeTrie, Append(base, DynamicChild))

\* C3: in the catch-all branch the split points are tried from left to
\* right and the first one whose suffix is a registered rest-segment chain
\* through the last segment decides; a split whose first segment is a
\* rest-segment key but whose suffix is no registered chain is skipped.
C3_FirstCompleteSplitDecides ==
    Classified =>
        \A n \in 0..Len(Segments) :
            LET base   == Prefix(Segments, n)
                splits == {i \in (n + 1)..Len(Segments) :
                              Suffix(Segments, i) \in RestChains(base, Routes)}
            IN  (TakesCatchAll(base) /\ splits # {}) =>
                    LET first == CHOOSE i \in splits : \A j \in splits : i <= j
                    IN  IsProtected =
                            (Suffix(Segments, first) \notin RestChains(base, PublicRoutes))

\* C4: if B/[[...name]] is registered and no route terminates at B,
\* the path B gets the classification of B/[[...name]].
C4_OptionalCatchAllMatchesBase ==
    Classified =>
        \A o \in OptionalCatchAllSegments :
            (Append(Segments, o) \in Routes /\ Segments \notin Routes)
            => IsProtected = (Append(Segments, o) \notin PublicRoutes)

\* C5: where a protected route and a public route terminate at the same
\* trie position, the node is public and every path resolved at that node
\* is classified public.
C5_PublicOverridesProtected ==
    \A r \in ProtectedRoutes : \A q \in PublicRoutes :
        PositionOf(r) = PositionOf(q) =>
            /\ routeTrie[PositionOf(r)].isProtected = <<FALSE>>
            /\ ((Classified /\ matched[1].node = PositionOf(r)) => ~IsProtected)

\* a path was resolved at the node of a route that is in both lists
C5_Witness ==
    /\ Classified
    /\ \E r \in ProtectedRoutes \cap PublicRoutes : matched[1].node = PositionOf(r)
    /\ ~IsProtected /\ defaultProtected

\* C9: a path equal, segment for segment, to a registered route of literal
\* segments gets that route's classification (public if it is in both
\* lists), whatever other routes match it.
C9_ExactLiteralPrecedence ==
    (Classified /\ Segments \in Routes) => IsProtected = (Segments \notin PublicRoutes)

\* the path is a registered literal route and a dynamic or catch-all route
\* of the other classification matches it too
C9_Witness ==
    /\ Classified
    /\ Segments \in ProtectedRoutes
    /\ \E r \in PublicRoutes : r # Segments /\ RouteMatches(r, Segments)
    /\ IsProtected /\ ~defaultProtected

\* C10: if B/[...name] is registered, no route terminates at B and no
\* route matches B, the path B is classified defaultProtected.
C10_RequiredCatchAllNeedsASegment ==
    Classified =>
        \A c \in CatchAllSegments :
            (Append(Segments, c) \in Routes /\ ~Registered(Segments))
            => IsProtected = defaultProtected

\* the calls of a collaborator made for the request in hand
Calls(name) == Len(SelectSeq(callLog, LAMBDA c : c = name))

\* the pathname matches an entry of excludeUrls: the entry's regular
\* expression (for a string, the one the middleware makes of it) matches it
MatchesExclusion(path) ==
    \E i \in DOMAIN excludeUrls :
        LET regex == IF excludeUrls[i].isRegex THEN excludeUrls[i]
                     ELSE RegExpOfString(excludeUrls[i].source)
        IN  Exec(regex.source, path, 0) # NoMatch

ClassifiedProtected(path) == matchPath(path, routeTrie, defaultProtected).isProtected

\* C6: for a request that is not excluded, the middleware returns the
\* result of onUnauthenticated if and only if the path is classified
\* protected and isAuthenticated returned false; otherwise it returns
\* NextResponse.next() and onUnauthenticated is not called.
C6_UnauthenticatedIffProtectedAndNotAuthed ==
    (pc = "returned" /\ ~excluded) =>
        /\ response = "onUnauthenticated"
              <=> (ClassifiedProtected(pathname) /\ isAuthed = <<FALSE>>)
        /\ response # "onUnauthenticated"
              => (response = "NextResponse.next" /\ Calls("onUnauthenticated") = 0)

\* a request for a protected path was answered by onUnauthenticated after
\* isAuthenticated returned false
C6_Witness ==
    /\ pc = "returned" /\ ~excluded
    /\ ClassifiedProtected(pathname)
    /\ isAuthed = <<FALSE>>
    /\ response = "onUnauthenticated"

\* C7: isAuthenticated is invoked for a request only when the pathname
\* matches no excludeUrls entry and the matcher classifies it as protected,
\* and then exactly once.
C7_AuthOnlyForProtectedNotExcluded ==
    /\ Calls("isAuthenticated") <= 1
    /\ pc \in {"awaitAuth", "returned"} =>
          (Calls("isAuthenticated") = 1
              <=> (~MatchesExclusion(pathname) /\ ClassifiedProtected(pathname)))

\* C8: a request whose pathname matches an excludeUrls entry is answered
\* with NextResponse.next() and neither the matcher nor isAuthenticated nor
\* onUnauthenticated is invoked for it.
C8_ExcludedBypassesEverything ==
    (pc \in {"awaitAuth", "returned"} /\ MatchesExclusion(pathname)) =>
        /\ pc = "returned"
        /\ response = "NextResponse.next"
        /\ Calls("matchPath") = 0
        /\ Calls("isAuthenticated") = 0
        /\ Calls("onUnauthenticated") = 0

\* C11: for every non-root path p, the path written with a trailing slash,
\* with '?x=1#y' appended, or with duplicate slashes between or after its
\* segments is classified exactly as p is.
C11_NormalizationIdempotence ==
    Classified =>
        \A p \in Paths \ {<<Slash>>} : \A kind \in VariantKinds :
            pathname = Variant(p, kind)
            => matched[1] = matchPath(p, routeTrie, defaultProtected)

\* a path written with doubled slashes and one written with a query and a
\* hash were classified by a registered route, against the default
C11_Witness ==
    /\ Classified
    /\ \E p \in Paths :
           /\ Len(SplitSegments(p)) >= 2
           /\ pathname \in {Variant(p, "slashesBetween"), Variant(p, "queryAndHash")}
    /\ IsProtected # defaultProtected

Listed(route, list) == \E i \in DOMAIN list : list[i] = route

\* the recognized groups among the directories of a page, outermost first
RecognizedGroups(dirs) ==
    SelectSeq(dirs, LAMBDA item :
        item \in DefaultPublicPatterns \cup DefaultProtectedPatterns)

\* C12: a page is listed by the innermost recognized route group among its
\* ancestor directories: protected if that group is (protected), public if
\* it is (public).
C12_InnermostGroupDecides ==
    pc = "generated" =>
        \A page \in appDir :
            LET recognized == RecognizedGroups(page)
            IN  recognized # <<>> =>
                    IF recognized[Len(recognized)] \in DefaultProtectedPatterns
                    THEN Listed(RoutePath(page), routeMap.protected)
                    ELSE Listed(RoutePath(page), routeMap.public)

\* the catch-all segments of a route
CatchAllCount(route) == Len(SelectSeq(route, IsCatchAll))

\* C13: a path matched by a route with a further catch-all segment after a
\* rest segment, each catch-all taking a run of segments of any depth, gets
\* that route's classification unless another registered route matches
\* the path too.
C13_NestedCatchAllsMatchAnyDepth ==
    Classified =>
        \A r \in Routes :
            (/\ CatchAllCount(r) >= 2
             /\ RouteMatches(r, Segments)
             /\ \A q \in Routes \ {r} : ~RouteMatches(q, Segments))
            => IsProtected = (r \notin PublicRoutes)

\* the catch-all segments of a route that come after another catch-all
LaterCatchAlls(route) ==
    {i \in 1..Len(route) :
        IsCatchAll(route[i]) /\ \E j \in 1..(i - 1) : IsCatchAll(route[j])}

AllFactories == \A k \in DOMAIN functions : functions[k] \in Factories

\* the entries whose middleware returns without calling next
Stops == {k \in DOMAIN functions : ~CallsNext(functions[k])}

\* C15: chain([f1, ..., fn]) is f1(f2(...fn(end)...)) with end returning
\* undefined; the middlewares run in list order, each reached only through
\* the call to next of the one before it; the first one that returns
\* without calling next stops the chain and its response is the result;
\* the result is undefined when every middleware returns next(request).
C15_ChainIsComposition ==
    AllFactories =>
        /\ middleware = [calls |-> [k \in 1..Len(functions) |-> k], last |-> "end"]
        /\ ran = [k \in 1..Len(ran) |-> k]
        /\ \A k \in 1..(Len(ran) - 1) : CallsNext(functions[k])
        /\ pc = "chainReturned" =>
               IF Stops = {}
               THEN response = "undefined" /\ Len(ran) = Len(functions)
               ELSE response = "response" /\ Len(ran) = Min(Stops)

\* the second of three middlewares returned a response: the third did not run
C15_Witness ==
    /\ pc = "chainReturned"
    /\ AllFactories
    /\ Len(functions) = 3
    /\ CallsNext(functions[1]) /\ ~CallsNext(functions[2])
    /\ ran = <<1, 2>>
    /\ response = "response"

\* C16: in chain([withLogging, withAuth, withHeaders]) with withAuth the
\* middleware createRouteGuardMiddleware returned, a request for a public
\* path goes on to withHeaders, and a request for a protected path either
\* goes on to withHeaders (authenticated) or gets the onUnauthenticated
\* response.
C16_GuardDirectlyInChain ==
    (/\ pc = "chainReturned"
     /\ functions = <<"withLogging", RouteGuardMiddleware, "withHeaders">>)
    => IF ~ClassifiedProtected(pathname)
       THEN \E i \in DOMAIN ran : ran[i] = 3
       ELSE (\E i \in DOMAIN ran : ran[i] = 3) \/ response = "onUnauthenticated"

\* str.startsWith(prefix)
StartsWith(str, prefix) ==
    Len(str) >= Len(prefix) /\ SubSeq(str, 1, Len(prefix)) = prefix

\* C17: when excludeUrls is omitted, every request whose pathname starts
\* with '/api/' is answered with NextResponse.next() and isAuthenticated is
\* not invoked for it.
C17_DefaultExcludesApiRoutes ==
    (/\ pc \in {"awaitAuth", "returned"}
     /\ options.excludeUrls = <<>>
     /\ StartsWith(pathname, <<Slash, "api", Slash>>))
    => /\ pc = "returned"
       /\ response = "NextResponse.next"
       /\ Calls("isAuthenticated") = 0

Malformed == UnclosedCatchAllSegments \cup UnclosedDynamicSegments

\* the position of a route if its malformed segments are literal children
LiteralPositionOf(route) ==
    [i \in 1..Len(route) |->
        IF route[i] \in Malformed THEN route[i] ELSE EdgeOf(route[i])]

\* C18: a route segment with an unclosed bracket is stored as a literal
\* child under its own text, and a path is resolved at the node of a route
\* with such a segment only if it has that text at the segment's place.
C18_MalformedSegmentIsLiteral ==
    Classified =>
        /\ \A r \in Routes : \A i \in 1..Len(r) :
               r[i] \in Malformed
               => HasChild(routeTrie, LiteralPositionOf(Prefix(r, i - 1)), r[i])
        /\ \A r \in Routes :
               (/\ \E i \in 1..Len(r) : r[i] \in Malformed
                /\ matched[1].node = PositionOf(r))
               => /\ Len(Segments) = Len(r)
                  /\ \A i \in 1..Len(r) : r[i] \in Malformed => Segments[i] = r[i]

\* the segments of the request in hand once query, hash and empty segments
\* are gone
CleanSegments == SplitSegments(CleanPath(pathname))

\* C19: for every route map, every path string and either default, the
\* matcher returns true or false, after at most one call of findMatch and
\* one loop iteration per path segment and one final call.
C19_MatcherIsTotal ==
    Classified =>
        /\ matched[1].isProtected \in BOOLEAN
        /\ matched[1].steps <= 2 * Len(CleanSegments) + 1

\* a path of three segments, written with a query and a hash, was matched
\* through the loop of a catch-all
C19_Witness ==
    /\ Classified
    /\ Len(CleanSegments) = 3
    /\ Len(Segments) > Len(CleanSegments)
    /\ matched[1].steps > Len(CleanSegments) + 1
    /\ IsProtected # defaultProtected

\* C20: defaultProtected is true when the option is omitted, and a request
\* that is not excluded, for a path that matches no registered route and has
\* no registered ancestor, is classified defaultProtected; with an empty
\* route map every request that is not excluded is.
C20_UnregisteredPathGetsDefault ==
    /\ options.defaultProtected = <<>> => defaultProtected = TRUE
    /\ (pc \in {"awaitAuth", "returned"} /\ ~excluded) =>
           LET ancestors == {n \in 0..(Len(Segments) - 1) :
                                Registered(Prefix(Segments, n))}
           IN  ((~Registered(Segments) /\ ancestors = {}) \/ Routes = {})
               => matched[1].isProtected = defaultProtected

\* C21: the trie is built once, by createRouteGuardMiddleware, and no
\* request changes it: after any sequence or interleaving of requests it is
\* the trie that was built from the route map at construction.
C21_TrieIsImmutable == routeTrie = buildRouteTrie(routeMap)

\* a request was answered while another one waits for isAuthenticated
C21_Witness ==
    /\ pc = "returned" /\ matched # <<>>
    /\ \E request \in suspended : request.pathname # pathname

Without(trie, roots) ==
    LET kept == {pos \in DOMAIN trie :
                    ~ \E r \in roots : Len(r) <= Len(pos) /\ SubSeq(pos, 1, Len(r)) = r}
    IN  [pos \in kept |-> trie[pos]]

\* the trie without the branches the claim says are never consulted: from
\* the node at pos on, where the segment has a literal child, the dynamic
\* and the catch-all subtree of the node; where it has none but the node has
\* a dynamic child, the catch-all subtree of the node
RECURSIVE WithoutOtherBranches(_, _, _, _)
WithoutOtherBranches(trie, pos, segments, i) ==
    IF i > Len(segments) THEN trie
    ELSE IF HasChild(trie, pos, segments[i])
         THEN WithoutOtherBranches(
                  Without(trie, {Append(pos, DynamicChild), Append(pos, CatchAllChild)}),
                  Append(pos, segments[i]), segments, i + 1)
    ELSE IF HasNode(trie, Append(pos, DynamicChild))
         THEN WithoutOtherBranches(Without(trie, {Append(pos, CatchAllChild)}),
                                   Append(pos, DynamicChild), segments, i + 1)
    ELSE trie

C24_CatchAllConsumesTheRest ==
    Classified =>
        \A n \in 0..Len(Segments) :
            LET base     == Prefix(Segments, n)
                catchAll == Append(base, CatchAllChild)
                splits   == {i \in (n + 1)..Len(Segments) :
                                Suffix(Segments, i) \in RestChains(base, Routes)}
            IN  (TakesCatchAll(base) /\ splits = {}) =>
                    IsProtected = IF routeTrie[catchAll].isProtected = Unset
                                  THEN defaultProtected
                                  ELSE routeTrie[catchAll].isProtected[1]

\* the lists with the entries of list in any order
Reorderings(list) ==
    {[i \in DOMAIN list |-> list[f[i]]] :
        f \in {g \in [DOMAIN list -> DOMAIN list] :
                  \A i, j \in DOMAIN list : g[i] = g[j] => i = j}}

\* C25: the classification of a path depends only on which patterns are in
\* the protected list and which are in the public list: with either list
\* permuted the matcher gives the same result.
C25_OrderInsideTheListsIsIrrelevant ==
    Classified =>
        \A protected \in Reorderings(routeMap.protected) :
            \A public \in Reorderings(routeMap.public) :
                matchPath(pathname,
                          buildRouteTrie([protected |-> protected, public |-> public]),
                          defaultProtected).isProtected = IsProtected

\* the route map with one more route at the end of a list
WithRoute(map, route, isProtected) ==
    IF isProtected
    THEN [map EXCEPT !.protected = Append(@, StringOf(route))]
    ELSE [map EXCEPT !.public = Append(@, StringOf(route))]

\* C26: adding one pattern to a route map changes the classification only
\* of paths that match the added pattern: a path that does not match it is
\* classified as before.
C26_RegistrationIsLocal ==
    Classified =>
        \A route \in Patterns : \A isProtected \in BOOLEAN :
            ~RouteMatches(route, Segments) =>
                matchPath(pathname,
                          buildRouteTrie(WithRoute(routeMap, route, isProtected)),
                          defaultProtected).isProtected = IsProtected

\* C27: for a fixed middleware, whether a pathname is treated as excluded
\* is the same on every request, whatever requests were handled before: it
\* is what the exclusion loop answers for the pathname on the first request
\* of the middleware.
C27_ExclusionIsStateless ==
    pc \in {"awaitAuth", "returned"} =>
        excluded = ExclusionLoop(excludeUrls, 1, [i \in DOMAIN excludeUrls |-> 0],
                                 pathname, 0).excluded

\* C28: with the default onUnauthenticated, an unauthenticated request to a
\* protected path is redirected to '/login' with the original pathname in
\* the 'from' parameter, and the follow-up request for '/login' is not
\* redirected again: the client never follows more than one redirect in a
\* row.
C28_RedirectEndsAfterOneHop ==
    /\ [](hops <= 1)
    /\ [][(pc = "returned" /\ response = "onUnauthenticated" /\ hops = 0)
            => location' = <<[pathname |-> <<Slash, "login">>, from |-> pathname]>>]_vars

C30_SetExactlyWhereAPatternTerminates ==
    \A pos \in DOMAIN routeTrie :
        routeTrie[pos].isProtected # Unset <=> \E r \in Routes : PositionOf(r) = pos

\* a catch-all node that only carries a rest segment is unset, and a path
\* was resolved at the node of the rest segment below it
C30_Witness ==
    \E pos \in DOMAIN routeTrie :
        /\ pos # <<>> /\ pos[Len(pos)] = CatchAllChild
        /\ routeTrie[pos].isProtected = Unset
        /\ HasChildren(routeTrie, pos)
        /\ Classified
        /\ Len(matched[1].node) = Len(pos) + 1
        /\ SubSeq(matched[1].node, 1, Len(pos)) = pos

=============================================================================
